---- MODULE Spec2Model ----
(***************************************************************************)
(* Sleep-session state machine and daily aggregation pipeline of           *)
(* "breath sensor app copy/simulate_arduino.py".                           *)
(*                                                                         *)
(* Three threads share the module-level globals of the program:            *)
(*   - the sampling loop (fake_arduino_data / read_from_serial),           *)
(*   - the hourly_saver background thread,                                 *)
(*   - the web request handlers start/pause/resume/end_sleep (one request  *)
(*     in flight at a time).                                               *)
(* Every action executes the source lines named in its comment; a thread   *)
(* position ("s104", "h317", "e290", ...) names the next source line the   *)
(* thread will execute.                                                    *)
(*                                                                         *)
(* Units: the clock and all durations are whole seconds; breath rates and  *)
(* peak counts are integers; the rounded statistics of a summary record    *)
(* (round(x, 2)) are kept in hundredths.                                   *)
(***************************************************************************)
EXTENDS Integers, Sequences, FiniteSets

\* ------------------------------------------------------------------ bounds
MaxTime == 2
MaxSamples == 2
TicksPerDay == 2
\* The tighter clock and aggregate bounds of RaceSpec and LiveSpec.
SmallTime == 1
SmallSamples == 1
\* The longest aggregate StatsSpec starts from.
StatLen == 3

\* --------------------------------------------------------------- constants
\* Python's None for sleep_start_time and current_day.
None == -1

\* Inputs a sample can carry (peaks_in_20, breath_rate, apneas, hypopneas, AHI).
Rates == {10, 14}
Peaks == {3}
ApneaIn == 1
HypopneaIn == 1
AhiIn == 5
\* The rates and peak counts of the aggregates StatsSpec starts from.
StatRates == {10, 12, 14}
StatPeaks == {3, 15}

VARIABLES
    sleep_active, sleep_paused, sleep_ended,   \* session flags
    sleep_start_time, sleep_accumulated,       \* sleep timer
    current_day, day_data,                     \* daily readout
    now,                                       \* time.time()
    store,                                     \* DATA_DIR/<date>.json files
    spc, data,                                 \* sampling loop: position, sample
    hpc, hmetrics,                             \* hourly_saver: position, locals
    rpc, rmetrics, response,                   \* request handler: position, locals, last reply
    listing,                                   \* records last shown by the metrics view
    active_time                                \* history: seconds spent Active since start_sleep

vars == <<sleep_active, sleep_paused, sleep_ended, sleep_start_time,
          sleep_accumulated, current_day, day_data, now, store, spc, data,
          hpc, hmetrics, rpc, rmetrics, response, listing, active_time>>

session == <<sleep_active, sleep_paused, sleep_ended, sleep_start_time,
             sleep_accumulated>>
sampler == <<spc, data>>
hourly == <<hpc, hmetrics>>
handler == <<rpc, rmetrics, response, listing>>

\* ----------------------------------------------------------------- values
EmptyDay ==
    [samples |-> <<>>, peaks |-> <<>>, apnea_events |-> 0,
     hypopnea_events |-> 0, longest_pause |-> 0, breaths_in_20 |-> 0,
     AHI |-> 0, total_sleep_secs |-> 0]

NoData == [total_sleep_secs |-> 0]

NoMetrics ==
    [date |-> None, avg_breath_rate |-> 0, min_breath_rate |-> 0,
     max_breath_rate |-> 0, avg_peaks_in_20 |-> 0, apnea_events |-> 0,
     hypopnea_events |-> 0, AHI |-> 0, longest_pause |-> 0,
     total_sleep_secs |-> 0, path |-> None]

NoFile == [state |-> "absent", record |-> NoMetrics]

NoResponse == [status |-> "none", total_sleep_seconds |-> None]

Today == now \div TicksPerDay

Dates == {None} \cup (0 .. (MaxTime \div TicksPerDay))

\* ------------------------------------------------------- pure functions
RECURSIVE SumSeq(_)
SumSeq(s) == IF s = <<>> THEN 0 ELSE Head(s) + SumSeq(Tail(s))

RECURSIVE MinSeq(_)
MinSeq(s) ==
    IF Len(s) = 1 THEN Head(s)
    ELSE LET m == MinSeq(Tail(s)) IN IF Head(s) <= m THEN Head(s) ELSE m

RECURSIVE MaxSeq(_)
MaxSeq(s) ==
    IF Len(s) = 1 THEN Head(s)
    ELSE LET m == MaxSeq(Tail(s)) IN IF Head(s) >= m THEN Head(s) ELSE m

\* Round2 with the fraction cut off instead of rounded.
Round2Truncating(n, d) == (100 * n) \div d

\* round(n / d, 2) in hundredths, ties to even.
Round2(n, d) ==
    LET q == (100 * n) \div d
        r == (100 * n) % d
    IN  IF 2 * r < d THEN q
        ELSE IF 2 * r > d THEN q + 1
        ELSE IF q % 2 = 0 THEN q ELSE q + 1

\* The gate of the sampling loop (negation of the test that skips a cycle).
GateOpen == sleep_active /\ ~sleep_paused /\ ~sleep_ended

\* get_sleep_accumulated(), evaluated in one piece.
Elapsed ==
    IF sleep_paused \/ sleep_ended \/ sleep_start_time = None
    THEN sleep_accumulated
    ELSE sleep_accumulated + (now - sleep_start_time)

\* Metrics with total_sleep_secs read from get_sleep_accumulated() instead of
\* from the aggregate.
MetricsLiveTotal(dd, day) ==
    [date |-> day,
     avg_breath_rate |-> Round2(SumSeq(dd.samples), Len(dd.samples)),
     min_breath_rate |-> 100 * MinSeq(dd.samples),
     max_breath_rate |-> 100 * MaxSeq(dd.samples),
     avg_peaks_in_20 |-> Round2(SumSeq(dd.peaks), Len(dd.peaks)),
     apnea_events |-> dd.apnea_events,
     hypopnea_events |-> dd.hypopnea_events,
     AHI |-> dd.AHI,
     longest_pause |-> dd.longest_pause,
     total_sleep_secs |-> Elapsed,
     path |-> None]

\* summarize_day's metrics dict for aggregate dd and date stamp day.
Metrics(dd, day) ==
    [date |-> day,
     avg_breath_rate |-> Round2(SumSeq(dd.samples), Len(dd.samples)),
     min_breath_rate |-> 100 * MinSeq(dd.samples),
     max_breath_rate |-> 100 * MaxSeq(dd.samples),
     avg_peaks_in_20 |-> Round2(SumSeq(dd.peaks), Len(dd.peaks)),
     apnea_events |-> dd.apnea_events,
     hypopnea_events |-> dd.hypopnea_events,
     AHI |-> dd.AHI,
     longest_pause |-> dd.longest_pause,
     total_sleep_secs |-> dd.total_sleep_secs,
     path |-> None]

\* ------------------------------------------------------------------- Init
Init ==
    /\ sleep_active = FALSE
    /\ sleep_paused = FALSE
    /\ sleep_ended = FALSE
    /\ sleep_start_time = None
    /\ sleep_accumulated = 0
    /\ current_day = None
    /\ day_data = EmptyDay
    /\ now = 0
    /\ store = [d \in Dates |-> NoFile]
    /\ spc = "s73"
    /\ data = NoData
    /\ hpc = "h347"
    /\ hmetrics = NoMetrics
    /\ rpc = "idle"
    /\ rmetrics = NoMetrics
    /\ response = NoResponse
    /\ listing = {}
    /\ active_time = 0

\* ------------------------------------------------------------------ clock
Tick ==
    /\ now < MaxTime
    /\ now' = now + 1
    /\ active_time' = IF GateOpen THEN active_time + 1 ELSE active_time
    /\ UNCHANGED <<session, current_day, day_data, store, sampler, hourly, handler>>

\* ---------------------------------------------------------- sampling loop
\* fake_arduino_data (lines 70-119); read_from_serial (130-183) runs the same
\* statements on values parsed from the serial line.

\* Line 73: the cycle is skipped unless the session is active, not paused and
\* not ended; otherwise control reaches the call of line 100.
S_Gate ==
    /\ spc = "s73"
    /\ GateOpen
    /\ Len(day_data.samples) < MaxSamples
    /\ spc' = "g56"
    /\ UNCHANGED <<session, current_day, day_data, now, store, data, hourly,
                   handler, active_time>>

\* Line 56, called from line 100: the test of get_sleep_accumulated.
G_Test ==
    /\ spc = "g56"
    /\ spc' = IF sleep_paused \/ sleep_ended \/ sleep_start_time = None
              THEN "g57" ELSE "g59"
    /\ UNCHANGED <<session, current_day, day_data, now, store, data, hourly,
                   handler, active_time>>

\* Line 57 or line 59: the value that line 100 puts into the data dict. On
\* line 59 time.time() - None raises TypeError, which the except clause of
\* lines 117-119 catches: the cycle is abandoned.
G_Return ==
    /\ spc \in {"g57", "g59"}
    /\ IF spc = "g59" /\ sleep_start_time = None
       THEN /\ spc' = "s73"
            /\ data' = NoData
       ELSE /\ data' = [total_sleep_secs |->
                           IF spc = "g57" THEN sleep_accumulated
                           ELSE sleep_accumulated + (now - sleep_start_time)]
            /\ spc' = "s104"
    /\ UNCHANGED <<session, current_day, day_data, now, store, hourly, handler,
                   active_time>>

\* Line 104: day_data["samples"].append(data["breath_rate"])
S_AppendSample ==
    /\ spc = "s104"
    /\ \E r \in Rates :
          day_data' = [day_data EXCEPT !.samples = Append(@, r)]
    /\ spc' = "s105"
    /\ UNCHANGED <<session, current_day, now, store, data, hourly, handler,
                   active_time>>

\* Lines 105-109: the peak count is appended and the latest apnea, hypopnea,
\* breaths-in-20 and AHI values are stored.
S_AppendPeaks ==
    /\ spc = "s105"
    /\ \E p \in Peaks :
          day_data' = [day_data EXCEPT !.peaks = Append(@, p),
                                       !.apnea_events = ApneaIn,
                                       !.hypopnea_events = HypopneaIn,
                                       !.breaths_in_20 = p,
                                       !.AHI = AhiIn]
    /\ spc' = "s110"
    /\ UNCHANGED <<session, current_day, now, store, data, hourly, handler,
                   active_time>>

\* Line 110: day_data['total_sleep_secs'] = data['total_sleep_secs']
S_Total ==
    /\ spc = "s110"
    /\ day_data' = [day_data EXCEPT !.total_sleep_secs = data.total_sleep_secs]
    /\ spc' = "s113"
    /\ UNCHANGED <<session, current_day, now, store, data, hourly, handler,
                   active_time>>

\* Line 113: socketio.emit("arduino_data", data); lines 115-116 end the cycle.
S_Emit ==
    /\ spc = "s113"
    /\ spc' = "s73"
    /\ data' = NoData
    /\ UNCHANGED <<session, current_day, day_data, now, store, hourly, handler,
                   active_time>>

Sampler ==
    \/ S_Gate \/ G_Test \/ G_Return
    \/ S_AppendSample \/ S_AppendPeaks \/ S_Total \/ S_Emit

\* ----------------------------------------------------------- summarize_day
\* summarize_day without its guard.
SummaryNeverEmpty(dd) == FALSE

\* Line 317: `if not day_data["samples"]: return`.
SummaryEmpty(dd) == dd.samples = <<>>

\* Lines 319-322: statistics.mean, min and max raise on an empty sequence.
StatsRaise(dd) == dd.samples = <<>> \/ dd.peaks = <<>>

\* Line 336: open(path, "w") creates or truncates the file.
Truncate(st, path) == [st EXCEPT ![path] = [state |-> "empty", record |-> NoMetrics]]

\* Line 337: json.dump(metrics, f, indent=2) fills the opened file.
Dump(st, m) ==
    [st EXCEPT ![m.path] = [state |-> "full", record |-> [m EXCEPT !.path = None]]]

\* ------------------------------------------------------------ hourly_saver
\* Line 347 returns from time.sleep and line 344 calls summarize_day.
H_Wake ==
    /\ hpc = "h347"
    /\ hpc' = "h317"
    /\ UNCHANGED <<session, current_day, day_data, now, store, sampler, hmetrics,
                   handler, active_time>>

\* Line 317.
H_Check ==
    /\ hpc = "h317"
    /\ hpc' = IF SummaryEmpty(day_data) THEN "h347" ELSE "h319"
    /\ UNCHANGED <<session, current_day, day_data, now, store, sampler, hmetrics,
                   handler, active_time>>

\* Lines 319-334: the statistics and the metrics dict; an exception reaches
\* the except clause of line 345.
H_Compute ==
    /\ hpc = "h319"
    /\ IF StatsRaise(day_data)
       THEN /\ hpc' = "h346"
            /\ hmetrics' = NoMetrics
       ELSE /\ hpc' = "h335"
            /\ hmetrics' = Metrics(day_data, current_day)
    /\ UNCHANGED <<session, current_day, day_data, now, store, sampler, handler,
                   active_time>>

\* Lines 335-336: the path from current_day, then open(path, "w"), which
\* may fail (OSError).
H_Open ==
    /\ hpc = "h335"
    /\ \E ok \in BOOLEAN :
          IF ok
          THEN /\ store' = Truncate(store, current_day)
               /\ hmetrics' = [hmetrics EXCEPT !.path = current_day]
               /\ hpc' = "h337"
          ELSE /\ store' = store
               /\ hmetrics' = NoMetrics
               /\ hpc' = "h346"
    /\ UNCHANGED <<session, current_day, day_data, now, sampler, handler,
                   active_time>>

\* H_Dump followed by the reset end_sleep performs after its summarize_day.
H_DumpAndReset ==
    /\ hpc = "h337"
    /\ store' = Dump(store, hmetrics)
    /\ hmetrics' = NoMetrics
    /\ hpc' = "h347"
    /\ day_data' = EmptyDay
    /\ UNCHANGED <<session, current_day, now, sampler, handler, active_time>>

\* Lines 337-338, then back to the sleep of line 347.
H_Dump ==
    /\ hpc = "h337"
    /\ store' = Dump(store, hmetrics)
    /\ hmetrics' = NoMetrics
    /\ hpc' = "h347"
    /\ UNCHANGED <<session, current_day, day_data, now, sampler, handler,
                   active_time>>

\* hourly_saver without its try/except: the exception ends the thread.
HourlyDies == "dead"

\* Where hourly_saver continues after an exception in summarize_day: the
\* except clause of lines 345-346 falls through to the sleep of line 347.
HourlyAfterError == "h347"

\* Lines 345-346.
H_Except ==
    /\ hpc = "h346"
    /\ hpc' = HourlyAfterError
    /\ UNCHANGED <<session, current_day, day_data, now, store, sampler, hmetrics,
                   handler, active_time>>

Hourly == H_Wake \/ H_Check \/ H_Compute \/ H_Open \/ H_Dump \/ H_Except

\* --------------------------------------------------------- request handlers
Ack(status) == [status |-> status, total_sleep_seconds |-> None]

\* An exception that leaves a view function: the request is answered with
\* an internal server error and the rest of the view is not executed.
ServerError == [status |-> "error 500", total_sleep_seconds |-> None]

\* start_sleep, lines 245-249.
R_Start ==
    /\ rpc = "idle"
    /\ current_day' = Today
    /\ sleep_active' = TRUE
    /\ sleep_paused' = FALSE
    /\ sleep_ended' = FALSE
    /\ rpc' = "st251"
    /\ active_time' = 0
    /\ UNCHANGED <<sleep_start_time, sleep_accumulated, day_data, now, store,
                   sampler, hourly, rmetrics, response, listing>>

\* start_sleep, line 251.
R_Start251 ==
    /\ rpc = "st251"
    /\ sleep_start_time' = now
    /\ rpc' = "st252"
    /\ UNCHANGED <<sleep_active, sleep_paused, sleep_ended, sleep_accumulated,
                   current_day, day_data, now, store, sampler, hourly, rmetrics,
                   response, active_time, listing>>

\* start_sleep, lines 252-254.
R_Start252 ==
    /\ rpc = "st252"
    /\ sleep_accumulated' = 0
    /\ response' = Ack("sleep started")
    /\ rpc' = "idle"
    /\ UNCHANGED <<sleep_active, sleep_paused, sleep_ended, sleep_start_time,
                   current_day, day_data, now, store, sampler, hourly, rmetrics,
                   active_time, listing>>

\* pause_sleep adding the open interval on every call: no test of
\* sleep_paused and no reset of sleep_start_time.
R_PauseDoubleCount ==
    /\ rpc = "idle"
    /\ sleep_accumulated' = IF sleep_start_time # None
                            THEN sleep_accumulated + (now - sleep_start_time)
                            ELSE sleep_accumulated
    /\ rpc' = "pa264"
    /\ UNCHANGED <<sleep_active, sleep_paused, sleep_ended, sleep_start_time,
                   current_day, day_data, now, store, sampler, hourly, rmetrics,
                   response, active_time, listing>>

\* pause_sleep, lines 260-261.
R_Pause ==
    /\ rpc = "idle"
    /\ IF ~sleep_paused /\ sleep_start_time # None
       THEN /\ sleep_accumulated' = sleep_accumulated + (now - sleep_start_time)
            /\ rpc' = "pa262"
       ELSE /\ sleep_accumulated' = sleep_accumulated
            /\ rpc' = "pa264"
    /\ UNCHANGED <<sleep_active, sleep_paused, sleep_ended, sleep_start_time,
                   current_day, day_data, now, store, sampler, hourly, rmetrics,
                   response, active_time, listing>>

\* pause_sleep, line 262.
R_Pause262 ==
    /\ rpc = "pa262"
    /\ sleep_start_time' = None
    /\ rpc' = "pa264"
    /\ UNCHANGED <<sleep_active, sleep_paused, sleep_ended, sleep_accumulated,
                   current_day, day_data, now, store, sampler, hourly, rmetrics,
                   response, active_time, listing>>

\* pause_sleep, lines 264-265.
R_Pause264 ==
    /\ rpc = "pa264"
    /\ sleep_paused' = TRUE
    /\ response' = Ack("sleep paused")
    /\ rpc' = "idle"
    /\ UNCHANGED <<sleep_active, sleep_ended, sleep_start_time, sleep_accumulated,
                   current_day, day_data, now, store, sampler, hourly, rmetrics,
                   active_time, listing>>

\* resume_sleep leaving the paused flag set.
R_ResumeKeepsPaused ==
    /\ rpc = "idle"
    /\ rpc' = "re273"
    /\ UNCHANGED <<session, current_day, day_data, now, store, sampler, hourly,
                   rmetrics, response, active_time, listing>>

\* resume_sleep, line 272.
R_Resume ==
    /\ rpc = "idle"
    /\ sleep_paused' = FALSE
    /\ rpc' = "re273"
    /\ UNCHANGED <<sleep_active, sleep_ended, sleep_start_time, sleep_accumulated,
                   current_day, day_data, now, store, sampler, hourly, rmetrics,
                   response, active_time, listing>>

\* resume_sleep reviving the session as start_sleep does.
R_Resume273Reopens ==
    /\ rpc = "re273"
    /\ sleep_start_time' = now
    /\ sleep_active' = TRUE
    /\ sleep_ended' = FALSE
    /\ response' = Ack("sleep resumed")
    /\ rpc' = "idle"
    /\ UNCHANGED <<sleep_paused, sleep_accumulated, current_day, day_data, now,
                   store, sampler, hourly, rmetrics, active_time, listing>>

\* resume_sleep, lines 273-275.
R_Resume273 ==
    /\ rpc = "re273"
    /\ sleep_start_time' = now
    /\ response' = Ack("sleep resumed")
    /\ rpc' = "idle"
    /\ UNCHANGED <<sleep_active, sleep_paused, sleep_ended, sleep_accumulated,
                   current_day, day_data, now, store, sampler, hourly, rmetrics,
                   active_time, listing>>

\* end_sleep storing the open interval instead of adding it.
R_EndOverwrites ==
    /\ rpc = "idle"
    /\ IF sleep_start_time # None /\ ~sleep_paused
       THEN /\ sleep_accumulated' = now - sleep_start_time
            /\ rpc' = "en286"
       ELSE /\ sleep_accumulated' = sleep_accumulated
            /\ rpc' = "en288"
    /\ UNCHANGED <<sleep_active, sleep_paused, sleep_ended, sleep_start_time,
                   current_day, day_data, now, store, sampler, hourly, rmetrics,
                   response, active_time, listing>>

\* end_sleep, lines 284-285.
R_End ==
    /\ rpc = "idle"
    /\ IF sleep_start_time # None /\ ~sleep_paused
       THEN /\ sleep_accumulated' = sleep_accumulated + (now - sleep_start_time)
            /\ rpc' = "en286"
       ELSE /\ sleep_accumulated' = sleep_accumulated
            /\ rpc' = "en288"
    /\ UNCHANGED <<sleep_active, sleep_paused, sleep_ended, sleep_start_time,
                   current_day, day_data, now, store, sampler, hourly, rmetrics,
                   response, active_time, listing>>

\* end_sleep, line 286.
R_End286 ==
    /\ rpc = "en286"
    /\ sleep_start_time' = None
    /\ rpc' = "en288"
    /\ UNCHANGED <<sleep_active, sleep_paused, sleep_ended, sleep_accumulated,
                   current_day, day_data, now, store, sampler, hourly, rmetrics,
                   response, active_time, listing>>

\* end_sleep, lines 288-290: the finalized total goes into the aggregate and
\* summarize_day is called.
R_End288 ==
    /\ rpc = "en288"
    /\ day_data' = [day_data EXCEPT !.total_sleep_secs = sleep_accumulated]
    /\ rpc' = "e317"
    /\ UNCHANGED <<session, current_day, now, store, sampler, hourly, rmetrics,
                   response, active_time, listing>>

\* summarize_day called from end_sleep, line 317.
E_Check ==
    /\ rpc = "e317"
    /\ rpc' = IF SummaryEmpty(day_data) THEN "en293" ELSE "e319"
    /\ UNCHANGED <<session, current_day, day_data, now, store, sampler, hourly,
                   rmetrics, response, active_time, listing>>

\* summarize_day called from end_sleep, lines 319-334; end_sleep catches
\* nothing, so an exception ends the request.
E_Compute ==
    /\ rpc = "e319"
    /\ IF StatsRaise(day_data)
       THEN /\ rpc' = "idle"
            /\ rmetrics' = NoMetrics
            /\ response' = ServerError
       ELSE /\ rpc' = "e335"
            /\ rmetrics' = Metrics(day_data, current_day)
            /\ response' = response
    /\ UNCHANGED <<session, current_day, day_data, now, store, sampler, hourly,
                   active_time, listing>>

\* summarize_day called from end_sleep, lines 335-336.
E_Open ==
    /\ rpc = "e335"
    /\ \E ok \in BOOLEAN :
          IF ok
          THEN /\ store' = Truncate(store, current_day)
               /\ rmetrics' = [rmetrics EXCEPT !.path = current_day]
               /\ rpc' = "e337"
               /\ response' = response
          ELSE /\ store' = store
               /\ rmetrics' = NoMetrics
               /\ rpc' = "idle"
               /\ response' = ServerError
    /\ UNCHANGED <<session, current_day, day_data, now, sampler, hourly,
                   active_time, listing>>

\* summarize_day called from end_sleep, lines 337-338.
E_Dump ==
    /\ rpc = "e337"
    /\ store' = Dump(store, rmetrics)
    /\ rmetrics' = NoMetrics
    /\ rpc' = "en293"
    /\ UNCHANGED <<session, current_day, day_data, now, sampler, hourly, response,
                   active_time, listing>>

\* end_sleep, lines 293-303: a fresh date stamp and a fresh aggregate.
R_End293 ==
    /\ rpc = "en293"
    /\ current_day' = Today
    /\ day_data' = EmptyDay
    /\ rpc' = "en305"
    /\ UNCHANGED <<session, now, store, sampler, hourly, rmetrics, response,
                   active_time, listing>>

\* end_sleep, lines 305-313.
R_End305 ==
    /\ rpc = "en305"
    /\ sleep_active' = FALSE
    /\ sleep_paused' = FALSE
    /\ sleep_ended' = TRUE
    /\ response' = [status |-> "sleep ended",
                    total_sleep_seconds |-> sleep_accumulated]
    /\ rpc' = "idle"
    /\ UNCHANGED <<sleep_start_time, sleep_accumulated, current_day, day_data,
                   now, store, sampler, hourly, rmetrics, active_time, listing>>

Handler ==
    \/ R_Start \/ R_Start251 \/ R_Start252
    \/ R_Pause \/ R_Pause262 \/ R_Pause264
    \/ R_Resume \/ R_Resume273
    \/ R_End \/ R_End286 \/ R_End288 \/ E_Check \/ E_Compute \/ E_Open \/ E_Dump
    \/ R_End293 \/ R_End305

\* metrics view, lines 201-212: every *.json file of the data directory is
\* opened and parsed; a file that does not parse (an empty one) is skipped by
\* the except clause, and the records that did parse are rendered.
R_Metrics ==
    /\ rpc = "idle"
    /\ listing' = {store[d].record : d \in {e \in Dates : store[e].state = "full"}}
    /\ UNCHANGED <<session, current_day, day_data, now, store, sampler, hourly,
                   rpc, rmetrics, response, active_time>>

\* ---------------------------------------------------------- specifications
SamplerRest == spc = "s73"
HourlyRest == hpc = "h347"
HandlerRest == rpc = "idle"

\* The threads interleave line by line.
Next == Tick \/ Sampler \/ Hourly \/ Handler \/ R_Metrics

Spec == Init /\ [][Next]_vars

\* One operation at a time: a sampling cycle, a checkpoint or a request runs
\* to its end before anything else happens, and no time passes inside it.
SeqNext ==
    \/ SamplerRest /\ HourlyRest /\ HandlerRest /\ Tick
    \/ HourlyRest /\ HandlerRest /\ Sampler
    \/ SamplerRest /\ HandlerRest /\ Hourly
    \/ SamplerRest /\ HourlyRest /\ Handler

SeqSpec == Init /\ [][SeqNext]_vars

\* The sampling loop and a request handler interleave line by line while
\* hourly_saver stays in its one-hour sleep.
RaceNext ==
    \/ now < SmallTime /\ Tick
    \/ (spc = "s73" => Len(day_data.samples) < SmallSamples) /\ Sampler
    \/ Handler

RaceSpec == Init /\ [][RaceNext]_vars

\* summarize_day on its own: hourly_saver runs on an aggregate of a session
\* started at time 0 that has accepted up to StatLen samples.
SeqsUpTo(S, n) == UNION {[1 .. k -> S] : k \in 0 .. n}

StatsInit ==
    /\ sleep_active = TRUE
    /\ sleep_paused = FALSE
    /\ sleep_ended = FALSE
    /\ sleep_start_time = 0
    /\ sleep_accumulated = 0
    /\ current_day = 0
    /\ \E s \in SeqsUpTo(StatRates, StatLen) :
          \E p \in [1 .. Len(s) -> StatPeaks] :
             day_data = IF s = <<>> THEN EmptyDay
                        ELSE [EmptyDay EXCEPT !.samples = s, !.peaks = p,
                                              !.apnea_events = ApneaIn,
                                              !.hypopnea_events = HypopneaIn,
                                              !.breaths_in_20 = p[Len(s)],
                                              !.AHI = AhiIn]
    /\ now = 0
    /\ store = [d \in Dates |-> NoFile]
    /\ spc = "s73"
    /\ data = NoData
    /\ hpc = "h347"
    /\ hmetrics = NoMetrics
    /\ rpc = "idle"
    /\ rmetrics = NoMetrics
    /\ response = Ack("sleep started")
    /\ listing = {}
    /\ active_time = 0

StatsSpec == StatsInit /\ [][Hourly]_vars

\* The metrics view is requested while hourly_saver writes checkpoint after
\* checkpoint of the same aggregate.
ReadNext == Hourly \/ R_Metrics

ReadSpec == StatsInit /\ [][ReadNext]_vars

\* hourly_saver runs whenever it is scheduled, also in the middle of a
\* sampling cycle or a request, which resume once the checkpoint is over; the
\* thread is never starved, and of the writes it attempts again and again
\* some succeed.
LiveNext ==
    \/ Hourly
    \/ HourlyRest /\ SamplerRest /\ HandlerRest /\ now < SmallTime /\ Tick
    \/ /\ HourlyRest /\ HandlerRest
       /\ spc = "s73" => Len(day_data.samples) < SmallSamples
       /\ Sampler
    \/ HourlyRest /\ SamplerRest /\ Handler

LiveSpec ==
    /\ Init
    /\ [][LiveNext]_vars
    /\ WF_vars(Hourly)
    /\ SF_vars(H_Open /\ hpc' = "h337")

\* ================================================================== claims

\* C1. For every sequence of start/pause/resume/end calls, the accumulated
\* seconds end_sleep reports equal the time the session spent Active since
\* the last start_sleep.
C1_EndReportsActiveTime ==
    (rpc = "idle" /\ response.status = "sleep ended")
        => response.total_sleep_seconds = active_time

\* C2. A sample is appended to day_data, stored into it or emitted only at a
\* moment when the session is Active.
C2_AcceptOnlyWhileActive ==
    [][(spc \in {"s104", "s105", "s110", "s113"} /\ spc' # spc) => GateOpen]_vars

\* C3. Once end_sleep has reset the aggregate it stays empty until the next
\* start_sleep, also with the sampling loop running concurrently.
C3_EmptyAfterEnd ==
    sleep_ended => (day_data.samples = <<>> /\ day_data.peaks = <<>>)

\* C4. The record end_sleep writes carries total_sleep_secs equal to the
\* finalized sleep_accumulated of that session.
C4_EndRecordCarriesFinalTotal ==
    rpc \in {"e335", "e337"} => rmetrics.total_sleep_secs = sleep_accumulated

\* C5 as claimed: every record materialize builds has total_sleep_secs equal
\* to get_sleep_accumulated() at the moment of the materialize call.
C5_RecordTotalIsElapsed ==
    /\ hpc \in {"h335", "h337"} => hmetrics.total_sleep_secs = Elapsed
    /\ rpc \in {"e335", "e337"} => rmetrics.total_sleep_secs = Elapsed

\* C5 as amended: every record materialize builds has total_sleep_secs equal
\* to the total_sleep_secs field of the aggregate at the moment the record is
\* built (the value last stored there by an accepted sample or by end_sleep).
C5_RecordTotalIsAggregateTotal ==
    [][/\ (hpc = "h319" /\ hpc' = "h335")
            => hmetrics'.total_sleep_secs = day_data.total_sleep_secs
       /\ (rpc = "e319" /\ rpc' = "e335")
            => rmetrics'.total_sleep_secs = day_data.total_sleep_secs]_vars

\* A checkpoint record built from the aggregate's older total.
C5_Witness ==
    /\ hpc = "h335"
    /\ hmetrics.total_sleep_secs = day_data.total_sleep_secs
    /\ hmetrics.total_sleep_secs < Elapsed

\* C6. materialize on an aggregate with no samples is a no-op: no step taken
\* while the aggregate is empty changes the Summary Store or raises, so start
\* followed at once by end writes no record.
C6_EmptyMaterializeWritesNothing ==
    [][day_data.samples = <<>>
          => /\ store' = store
             /\ hpc' # "h346"
             /\ (response' = ServerError => response = ServerError)]_vars

\* end_sleep right after start_sleep, past its materialize, nothing written.
C6_Witness ==
    /\ rpc = "en293"
    /\ response.status = "sleep started"
    /\ day_data.samples = <<>>
    /\ \A d \in Dates : store[d].state = "absent"

\* C7. While the last answered call is pause_sleep, neither a further
\* pause_sleep nor the passing of time changes sleep_accumulated or the
\* value of get_sleep_accumulated().
C7_SecondPauseChangesNothing ==
    [][(/\ response.status = "sleep paused"
        /\ response'.status = "sleep paused"
        /\ \/ rpc \in {"pa262", "pa264"}
           \/ rpc' \in {"pa262", "pa264"}
           \/ now' # now)
          => /\ sleep_accumulated' = sleep_accumulated
             /\ Elapsed' = Elapsed]_vars

\* A second pause_sleep in progress after time has passed in the session.
C7_Witness ==
    /\ rpc = "pa264"
    /\ response.status = "sleep paused"
    /\ sleep_paused
    /\ sleep_accumulated > 0
    /\ now > sleep_accumulated

\* C8. The record reports the least and the greatest accepted breath rate and
\* the mean of the accepted rates (and of the accepted peak counts) rounded
\* to hundredths, so min <= avg <= max; rates 10, 12, 14 give 12, 10, 14.
RECURSIVE SumUpTo(_, _)
SumUpTo(s, n) == IF n = 0 THEN 0 ELSE SumUpTo(s, n - 1) + s[n]

IsRoundedMean(m, s) ==
    LET e == m * Len(s) - 100 * SumUpTo(s, Len(s))
    IN  2 * e <= Len(s) /\ -2 * e <= Len(s)

C8_RecordStatistics ==
    hpc \in {"h335", "h337"} =>
        LET s == day_data.samples
            m == hmetrics
        IN  /\ m.min_breath_rate <= m.avg_breath_rate
            /\ m.avg_breath_rate <= m.max_breath_rate
            /\ \E i \in 1 .. Len(s) : m.min_breath_rate = 100 * s[i]
            /\ \A i \in 1 .. Len(s) : m.min_breath_rate <= 100 * s[i]
            /\ \E i \in 1 .. Len(s) : m.max_breath_rate = 100 * s[i]
            /\ \A i \in 1 .. Len(s) : m.max_breath_rate >= 100 * s[i]
            /\ IsRoundedMean(m.avg_breath_rate, s)
            /\ IsRoundedMean(m.avg_peaks_in_20, day_data.peaks)
            /\ s = <<10, 12, 14>>
                  => /\ m.avg_breath_rate = 1200
                     /\ m.min_breath_rate = 1000
                     /\ m.max_breath_rate = 1400

\* The record for rates 10, 12, 14 written to the store.
C8_Witness ==
    /\ day_data.samples = <<10, 12, 14>>
    /\ store[0].state = "full"
    /\ store[0].record.avg_breath_rate = 1200
    /\ store[0].record.min_breath_rate = 1000
    /\ store[0].record.max_breath_rate = 1400

\* C10. Every control endpoint answers with its status acknowledgment, also
\* when the Summary Store write fails during end_sleep.
C10_EndpointsAlwaysAck == response # ServerError

\* C9. A failed write never ends hourly_saver: after the failure a later
\* checkpoint calls summarize_day again, and once the aggregate stays
\* non-empty a checkpoint opens the day's file for writing again and again.
C9_CheckpointSurvivesWriteFailure ==
    /\ (hpc = "h346") ~> (hpc = "h317")
    /\ <>[](~StatsRaise(day_data)) => []<>(hpc = "h337")

\* The except clause of hourly_saver entered after a failed open.
C9_Witness ==
    /\ hpc = "h346"
    /\ ~StatsRaise(day_data)

\* C11. A reader of the Summary Store never observes an emptied or partial
\* record: a date the metrics view has listed with a complete record is
\* listed with a complete record by every later request of the view.
C11_ReadersSeeCompleteRecords ==
    [][\A r \in listing : \E q \in listing' : q.date = r.date]_vars

\* C12. get_sleep_accumulated never observes a half-applied session
\* transition: the read never fails on a missing start time, and the value a
\* sample receives is neither negative nor larger than the time the session
\* has spent Active.
C12_ElapsedReadsAreConsistent ==
    /\ ~(spc = "g59" /\ sleep_start_time = None)
    /\ spc = "s104" => /\ data.total_sleep_secs >= 0
                       /\ data.total_sleep_secs <= active_time

\* C13. Whenever summarize_day computes a record from the aggregate, the
\* breath-rate sequence and the peak-count sequence have the same length: no
\* sample is seen with its rate appended and its peak count missing.
C13_MaterializeSeesWholeSamples ==
    [][((rpc = "e319" /\ rpc' # rpc) \/ (hpc = "h319" /\ hpc' # hpc))
          => Len(day_data.samples) = Len(day_data.peaks)]_vars

\* C14. resume_sleep answered when the last answered call was not pause_sleep
\* (the session is Idle, Active or Ended, not Paused) leaves sleep_accumulated,
\* sleep_start_time and the value of get_sleep_accumulated() as they were.
C14_ResumeWhenNotPausedIsNoOp ==
    [][(/\ rpc = "re273"
        /\ rpc' = "idle"
        /\ response.status \in {"none", "sleep started", "sleep resumed",
                                "sleep ended"})
          => /\ sleep_accumulated' = sleep_accumulated
             /\ sleep_start_time' = sleep_start_time
             /\ Elapsed' = Elapsed]_vars

\* C15. No step of the hourly checkpoint changes the aggregate, its date
\* stamp, the session flags, sleep_start_time or sleep_accumulated; only the
\* Summary Store may change.
C15_CheckpointKeepsAggregateAndSession ==
    [][hpc' # hpc => /\ day_data' = day_data
                     /\ current_day' = current_day
                     /\ session' = session]_vars

\* A checkpoint of a running session has written the record and the samples
\* are still in the aggregate.
C15_Witness ==
    /\ hpc = "h347"
    /\ GateOpen
    /\ day_data.samples # <<>>
    /\ store[current_day].state = "full"

\* C16. A sample accepted on a calendar date other than the aggregate's date
\* stamp finds the aggregate cleared: it is never appended to the samples
\* accumulated under the earlier date.
C16_RolloverResetsAggregate ==
    [][(spc = "s104" /\ spc' = "s105" /\ Today # current_day)
          => day_data.samples = <<>>]_vars

\* C17 as claimed: pause_sleep leaves the session Paused and a resume_sleep
\* answered right after it leaves the session Active, whatever the state
\* pause_sleep was issued in: the gate of the sampling loop is open.
C17_PauseThenResumeOpensGate ==
    [][(rpc = "re273" /\ rpc' = "idle" /\ response.status = "sleep paused")
          => GateOpen']_vars

\* C17 as amended: pause_sleep always leaves the paused flag set and the gate
\* closed; a resume_sleep answered right after it opens the gate exactly when
\* a session has been started and not ended (sleep_active and not
\* sleep_ended), so pause and resume issued while Idle or Ended leave the
\* gate closed.
C17_PauseThenResumeRestoresGate ==
    [][/\ (rpc = "pa264" /\ rpc' = "idle") => (sleep_paused' /\ ~GateOpen')
       /\ (rpc = "re273" /\ rpc' = "idle" /\ response.status = "sleep paused")
             => (GateOpen' <=> (sleep_active /\ ~sleep_ended))]_vars

\* A session resumed after a pause that closed an interval: the gate is open.
C17_Witness ==
    /\ rpc = "idle"
    /\ response.status = "sleep resumed"
    /\ sleep_accumulated > 0
    /\ sleep_start_time # None
    /\ GateOpen

\* C18. Only start_sleep makes a session that can be sampled: no step of
\* pause_sleep or resume_sleep changes sleep_active or sleep_ended, and the
\* sampling loop passes its gate only when a session has been started and not
\* ended. So after end_sleep, and before the first start_sleep, no sequence
\* of pause and resume calls makes the loop accept a sample.
C18_OnlyStartReopensGate ==
    [][/\ (rpc \in {"pa262", "pa264", "re273"} \/ rpc' \in {"pa262", "pa264", "re273"})
             => /\ sleep_active' = sleep_active
                /\ sleep_ended' = sleep_ended
                /\ (sleep_ended \/ ~sleep_active) => ~GateOpen'
       /\ (spc = "s73" /\ spc' # spc) => (sleep_active /\ ~sleep_ended)]_vars

\* pause_sleep and resume_sleep answered after end_sleep: the gate is closed.
C18_Witness ==
    /\ rpc = "idle"
    /\ response.status = "sleep resumed"
    /\ sleep_ended
    /\ sleep_start_time # None
    /\ spc = "s73"
    /\ ~GateOpen

\* C19. sleep_accumulated is never negative, and no step of pause_sleep,
\* resume_sleep or end_sleep (nor of any other thread) lowers it: the only
\* statement that does is line 252 of start_sleep, which sets it to 0.
C19_AccumulatedNeverDecreases ==
    [][/\ sleep_accumulated' >= 0
       /\ sleep_accumulated' < sleep_accumulated
             => (rpc = "st252" /\ sleep_accumulated' = 0)]_vars

\* end_sleep answered with every second of the clock accumulated.
C19_Witness ==
    /\ rpc = "idle"
    /\ response.status = "sleep ended"
    /\ response.total_sleep_seconds = sleep_accumulated
    /\ sleep_accumulated = MaxTime
    /\ active_time = MaxTime

====
